---- MODULE Spec2Model ----
(***************************************************************************)
(* FortuneFlip (src/App.js): the wheel / segment collection held in the    *)
(* App component's React state, the startup load and the persist effect    *)
(* over AsyncStorage, the spin (winner draw, target rotation, animation    *)
(* completion callback) and the wedge geometry drawn by WheelCanvas.       *)
(*                                                                         *)
(* JavaScript strings are modelled as pairs <<text, n>>: an id             *)
(* `${Date.now()}-${Math.random()}` is <<"id", k>> with k a fresh number,  *)
(* the name `Wheel ${n}` is <<"Wheel ", n>>.  null is the pair Null.       *)
(* JavaScript numbers (IEEE doubles) are modelled as binary floating point *)
(* with a Prec-bit significand and round-to-nearest-even, held as integers *)
(* in units of 1/Scale (values below 0.5 keep the spacing 1/Scale).        *)
(* Prec = 11 keeps every whole number of degrees up to 2047 exact, as      *)
(* doubles do.                                                             *)
(***************************************************************************)
EXTENDS Integers, Sequences, FiniteSets, TLC

VARIABLES
    wheels,             \* useState([])      App.js:106
    activeWheelId,      \* useState(null)    App.js:107
    selectedSegmentId,  \* useState(null)    App.js:108
    isSpinning,         \* useState(false)   App.js:109
    spinValue,          \* Animated.Value    App.js:110 (degrees, in units)
    pending,            \* Animated.timing animations started, callback not yet fired
    loadState,          \* "pending" while load() awaits getItem, then "done"
    ops,                \* handlers run so far
    lastOp,             \* the handler or callback that ran last, its argument, its path
    storage,            \* AsyncStorage under STORAGE_KEY
    reading,            \* what the getItem issued at mount (line 115) resolves with
    effectDep,          \* activeWheel?.id as of the last run of the effect at 156-160
    nextId              \* source of fresh ids (Date.now / Math.random)

vars == <<wheels, activeWheelId, selectedSegmentId, isSpinning, spinValue,
          pending, loadState, ops, lastOp, storage, reading, effectDep, nextId>>

\* ---------------------------------------------------------------- bounds
\* handler calls in one behaviour
MaxOps == 3
\* handler calls before the load has completed
MaxEarlyOps == 2
\* segments of the wheel that SpinSpec spins
MaxSpinSegs == 5
\* bits of a number's significand
Prec == 11

\* ---------------------------------------------------------------- values
Null == <<"null", 0>>
Undefined == <<"undefined", 0>>
Id(k) == <<"id", k>>
GhostId == Id(0)

DefaultLabel == <<"Default", 0>>
SegmentLabel(n) == <<"Segment ", n>>
WheelName(n) == <<"Wheel ", n>>
TypedNames == {<<"Lucky", 0>>}
TypedLabels == {<<"Pizza", 0>>}

\* createSegment(label): the id is fresh
createSegment(k, label) == [id |-> Id(k), label |-> label]

\* createWheel(name): two fresh ids, the wheel's and its first segment's
createWheel(k, name) ==
    [id |-> Id(k), name |-> name, segments |-> <<createSegment(k + 1, DefaultLabel)>>]

\* ensureSegments(segments), k the id a created segment takes
\* ensureSegments without its fallback
ensureSegments_AsGiven(segments, k) == segments

ensureSegments(segments, k) ==
    IF Len(segments) > 0 THEN segments ELSE <<createSegment(k, DefaultLabel)>>

\* Array.prototype.find by id: the position of the first match, 0 for undefined
FindIndex(xs, xid) ==
    IF \E k \in 1..Len(xs) : xs[k].id = xid
    THEN CHOOSE k \in 1..Len(xs) :
            /\ xs[k].id = xid
            /\ \A j \in 1..(k - 1) : xs[j].id # xid
    ELSE 0

\* ---------------------------------------------------------------- numbers
Pow2(n) == 2 ^ n

\* units per 1.0: every value the spin computes is a whole number of units
Scale == Pow2(Prec)
RandDen == Pow2(Prec)

\* the spacing of the floating-point numbers around p/d (in units)
HalfRange == Pow2(Prec - 1)
RECURSIVE QuantumFrom(_, _, _)
QuantumFrom(q, p, d) ==
    IF 2 * q * HalfRange * d <= p THEN QuantumFrom(2 * q, p, d) ELSE q
Quantum(p, d) == QuantumFrom(1, p, d)

RoundHalfEven(p, d) ==
    LET q == p \div d
        r == p % d
    IN  IF 2 * r < d THEN q
        ELSE IF 2 * r > d THEN q + 1
        ELSE IF q % 2 = 0 THEN q ELSE q + 1

\* the floating-point number nearest to p/d
Fl(p, d) == IF p = 0 THEN 0 ELSE LET Q == Quantum(p, d) IN RoundHalfEven(p, d * Q) * Q

Num(n) == n * Scale
FAdd(x, y) == Fl(x + y, 1)
FMulInt(n, x) == Fl(n * x, 1)
FDivInt(x, n) == Fl(x, n)
\* Math.random() is k / RandDen with k \in 0..RandDen-1, a value in [0, 1)
Draws == 0..(RandDen - 1)
RECURSIVE FlMulDiv(_, _, _)
FlMulDiv(k, x, d) ==
    IF x % 2 = 0 /\ d % 2 = 0 THEN FlMulDiv(k, x \div 2, d \div 2) ELSE Fl(k * x, d)
FMulRand(k, x) == FlMulDiv(k, x, RandDen)
Floor(x) == x \div Scale

extraSpins == 4
FullTurn == Num(360)

\* spinWheel, lines 226-231
WinningIndex(n, k1) == Floor(FMulRand(k1, Num(n)))
AnglePerSegment(n) == FDivInt(Num(360), n)
RandomOffset(n, k2) == FMulRand(k2, AnglePerSegment(n))
TargetRotation(n, i, k2) ==
    FAdd(FAdd(Num(extraSpins * 360), FMulInt(i, AnglePerSegment(n))), RandomOffset(n, k2))

\* WheelCanvas, lines 70-73: wedge `index` is drawn from startAngle to endAngle,
\* angles measured clockwise from the top (polarToCartesian subtracts 90 degrees)
StartAngle(n, index) == FMulInt(index, AnglePerSegment(n))
EndAngle(n, index) == FAdd(StartAngle(n, index), AnglePerSegment(n))

\* The wheel is turned clockwise by `rotation` degrees (lines 57-64) under the
\* pointer fixed at the top: the wheel angle that ends up under the pointer
PointerAngle(rotation) == (FullTurn - (rotation % FullTurn)) % FullTurn

\* the wedges of an n-segment wheel lying under the pointer after the rotation
WedgesUnderPointer(n, rotation) ==
    {index \in 0..(n - 1) :
        /\ StartAngle(n, index) <= PointerAngle(rotation)
        /\ PointerAngle(rotation) < EndAngle(n, index)}

\* ---------------------------------------------------------------- JSON
\* A JSON text is a sequence of tokens <<kind, payload>>; kind is one of
\* "{" "}" "[" "]" ":" "," "null" "str", and a "str" token carries its string.
Punct(c) == <<c, <<"", 0>>>>
StrTok(x) == <<"str", x>>
Key(name) == StrTok(<<name, 0>>)

\* A JavaScript value as JSON.parse builds it: t is its type, s its string,
\* e its elements (an array), m its members (an object), in source order.
VUndefined == [t |-> "undefined", s |-> <<"", 0>>, e |-> <<>>, m |-> <<>>]
VNull == [t |-> "null", s |-> <<"", 0>>, e |-> <<>>, m |-> <<>>]
VStr(x) == [t |-> "str", s |-> x, e |-> <<>>, m |-> <<>>]
VArr(xs) == [t |-> "arr", s |-> <<"", 0>>, e |-> xs, m |-> <<>>]
VObj(ms) == [t |-> "obj", s |-> <<"", 0>>, e |-> <<>>, m |-> ms]

\* JSON.stringify of a string or null
StringifyRef(x) == IF x = Null THEN <<Punct("null")>> ELSE <<StrTok(x)>>

\* JSON.stringify of a segment {id, label}
StringifySegment(seg) ==
    <<Punct("{"), Key("id"), Punct(":"), StrTok(seg.id), Punct(","),
      Key("label"), Punct(":"), StrTok(seg.label), Punct("}")>>

\* the elements of an array, separated by commas
RECURSIVE StringifySegments(_)
StringifySegments(segs) ==
    IF segs = <<>> THEN <<>>
    ELSE IF Len(segs) = 1 THEN StringifySegment(segs[1])
    ELSE StringifySegment(segs[1]) \o <<Punct(",")>> \o StringifySegments(Tail(segs))

\* JSON.stringify of a wheel {id, name, segments}
StringifyWheel(w) ==
    <<Punct("{"), Key("id"), Punct(":"), StrTok(w.id), Punct(","),
      Key("name"), Punct(":"), StrTok(w.name), Punct(","),
      Key("segments"), Punct(":"), Punct("[")>>
    \o StringifySegments(w.segments) \o <<Punct("]"), Punct("}")>>

RECURSIVE StringifyWheels(_)
StringifyWheels(ws) ==
    IF ws = <<>> THEN <<>>
    ELSE IF Len(ws) = 1 THEN StringifyWheel(ws[1])
    ELSE StringifyWheel(ws[1]) \o <<Punct(",")>> \o StringifyWheels(Tail(ws))

\* JSON.stringify({ wheels, activeWheelId }), line 140
Stringify(ws, aid) ==
    <<Punct("{"), Key("wheels"), Punct(":"), Punct("[")>>
    \o StringifyWheels(ws)
    \o <<Punct("]"), Punct(","), Key("activeWheelId"), Punct(":")>>
    \o StringifyRef(aid) \o <<Punct("}")>>

\* JSON.parse: recursive descent from position i; ok is FALSE where it throws
ParseFail == [ok |-> FALSE, val |-> VUndefined, next |-> 0]
ParseOk(v, i) == [ok |-> TRUE, val |-> v, next |-> i]
KindAt(ts, i) == IF i <= Len(ts) THEN ts[i][1] ELSE "end"

RECURSIVE ParseValue(_, _), ParseElements(_, _, _), ParseMembers(_, _, _)
ParseValue(ts, i) ==
    CASE KindAt(ts, i) = "str" -> ParseOk(VStr(ts[i][2]), i + 1)
      [] KindAt(ts, i) = "null" -> ParseOk(VNull, i + 1)
      [] KindAt(ts, i) = "[" ->
            IF KindAt(ts, i + 1) = "]" THEN ParseOk(VArr(<<>>), i + 2)
            ELSE ParseElements(ts, i + 1, <<>>)
      [] KindAt(ts, i) = "{" ->
            IF KindAt(ts, i + 1) = "}" THEN ParseOk(VObj(<<>>), i + 2)
            ELSE ParseMembers(ts, i + 1, <<>>)
      [] OTHER -> ParseFail

ParseElements(ts, i, acc) ==
    LET r == ParseValue(ts, i) IN
    IF ~r.ok THEN ParseFail
    ELSE IF KindAt(ts, r.next) = "," THEN ParseElements(ts, r.next + 1, Append(acc, r.val))
    ELSE IF KindAt(ts, r.next) = "]" THEN ParseOk(VArr(Append(acc, r.val)), r.next + 1)
    ELSE ParseFail

ParseMembers(ts, i, acc) ==
    IF KindAt(ts, i) # "str" \/ KindAt(ts, i + 1) # ":" THEN ParseFail
    ELSE LET r == ParseValue(ts, i + 2)
             ms == Append(acc, [k |-> ts[i][2], v |-> r.val])
         IN  IF ~r.ok THEN ParseFail
             ELSE IF KindAt(ts, r.next) = "," THEN ParseMembers(ts, r.next + 1, ms)
             ELSE IF KindAt(ts, r.next) = "}" THEN ParseOk(VObj(ms), r.next + 1)
             ELSE ParseFail

\* JSON.parse(raw): the whole text must be one value
JSONParse(ts) ==
    LET r == ParseValue(ts, 1) IN
    IF r.ok /\ r.next = Len(ts) + 1 THEN r ELSE ParseFail

\* property access v.name on a value that is not null or undefined: the last
\* member of that name, undefined when there is none
Get(v, name) ==
    LET hits == {j \in 1..Len(v.m) : v.m[j].k = <<name, 0>>} IN
    IF hits = {} THEN VUndefined
    ELSE v.m[CHOOSE j \in hits : \A h \in hits : h <= j].v

\* optional chaining v?.[0] and v?.id
FirstOf(v) == IF v.t = "arr" /\ Len(v.e) > 0 THEN v.e[1] ELSE VUndefined
IdOf(v) == IF v.t \in {"null", "undefined"} THEN VUndefined ELSE Get(v, "id")

\* ToBoolean of a parsed value (the empty string is not among the ids)
Truthy(v) == v.t \in {"str", "arr", "obj"}

\* the string or null a parsed value leaves in the state
RefOf(v) == IF v.t = "str" THEN v.s ELSE Null

\* the wheels a parsed array leaves in the state
SegmentOf(v) == [id |-> RefOf(Get(v, "id")), label |-> RefOf(Get(v, "label"))]
SegmentsOf(v) == [j \in 1..Len(v.e) |-> SegmentOf(v.e[j])]
WheelOf(v) ==
    [id |-> RefOf(Get(v, "id")), name |-> RefOf(Get(v, "name")),
     segments |-> SegmentsOf(Get(v, "segments"))]
WheelsOf(v) == [j \in 1..Len(v.e) |-> WheelOf(v.e[j])]

\* ---------------------------------------------------------------- storage
\* What the store holds under STORAGE_KEY: nothing, a text, or the text a save
\* wrote, which is kept as the value JSON.stringify was given (StoredText is the text).
Absent == [kind |-> "absent", text |-> <<>>, wheels |-> <<>>, activeWheelId |-> Null]
Text(ts) == [kind |-> "text", text |-> ts, wheels |-> <<>>, activeWheelId |-> Null]
Saved(ws, aid) == [kind |-> "saved", text |-> <<>>, wheels |-> ws, activeWheelId |-> aid]
StoredText(st) == IF st.kind = "saved" THEN Stringify(st.wheels, st.activeWheelId) ELSE st.text

\* a collection saved by an earlier run: two wheels, the second with two segments
StoredWheels ==
    <<[id |-> Id(1), name |-> WheelName(1),
       segments |-> <<[id |-> Id(2), label |-> DefaultLabel]>>],
      [id |-> Id(3), name |-> WheelName(2),
       segments |-> <<[id |-> Id(4), label |-> DefaultLabel],
                      [id |-> Id(5), label |-> SegmentLabel(2)]>>]>>

WellFormedSnapshot == Stringify(StoredWheels, Id(3))

\* the same text without its "activeWheelId" member
WithoutActiveId == SubSeq(WellFormedSnapshot, 1, Len(WellFormedSnapshot) - 5) \o <<Punct("}")>>

StoredSnapshots ==
    { Absent,
      Text(SubSeq(WellFormedSnapshot, 1, Len(WellFormedSnapshot) - 1)),  \* cut short
      Text(<<Punct("{"), Punct("}")>>),                            \* {}
      Text(Stringify(<<>>, Id(3))),                                \* no wheel left
      Text(WellFormedSnapshot),
      Text(WithoutActiveId),
      Text(Stringify(StoredWheels, GhostId)) }                     \* names no wheel

\* ---------------------------------------------------------------- React state
\* activeWheel, lines 151-154: position in ws of find(...) || wheels[0], 0 for undefined
ActiveWheelIndex(ws, aid) ==
    IF FindIndex(ws, aid) # 0 THEN FindIndex(ws, aid)
    ELSE IF Len(ws) > 0 THEN 1 ELSE 0

\* activeWheel?.id, the dependency of the effect at lines 156-160
ActiveWheelDep(ws, aid) ==
    IF ActiveWheelIndex(ws, aid) = 0 THEN Undefined ELSE ws[ActiveWheelIndex(ws, aid)].id

\* the effect at lines 156-160: activeWheelId once it has run (it runs when
\* activeWheel?.id differs from its value at the last run, dep)
SyncActiveWheelId(ws, aid, dep) ==
    IF ActiveWheelIndex(ws, aid) # 0 /\ ActiveWheelDep(ws, aid) # dep
    THEN ActiveWheelDep(ws, aid)
    ELSE aid

\* persist, lines 135-149: what the store holds after the effect
Persist(ws, aid, old) == IF Len(ws) > 0 THEN Saved(ws, aid) ELSE old

\* The render that follows a handler: the two effects run on the new wheels and
\* activeWheelId (ws, aid); sel is the new selectedSegmentId.
Commit(ws, aid, sel) ==
    /\ wheels' = ws
    /\ activeWheelId' = SyncActiveWheelId(ws, aid, effectDep)
    /\ effectDep' = ActiveWheelDep(ws, aid)
    /\ storage' = Persist(ws, SyncActiveWheelId(ws, aid, effectDep), storage)
    /\ selectedSegmentId' = sel

\* updateWheel, lines 162-168
\* updater[j] is the updater's value for the wheel at position j
updateWheel(ws, wheelId, updater) ==
    [j \in 1..Len(ws) |-> IF ws[j].id = wheelId THEN updater[j] ELSE ws[j]]

activeWheel == wheels[ActiveWheelIndex(wheels, activeWheelId)]
HasActiveWheel == ActiveWheelIndex(wheels, activeWheelId) # 0

\* ---------------------------------------------------------------- load
\* lines 113-131: the wheels and activeWheelId load() sets; k is the next fresh id
Starter(k) ==
    [wheels |-> <<createWheel(k, WheelName(1))>>, activeWheelId |-> Id(k), ids |-> 2]

\* the load without line 119's first operand
Loaded_FirstWheelActive(parsed) ==
    LET pw == Get(parsed, "wheels")
        first == IdOf(FirstOf(pw))
    IN [wheels |-> IF Truthy(pw) THEN WheelsOf(pw) ELSE <<>>,
        activeWheelId |-> IF Truthy(first) THEN RefOf(first) ELSE Null,
        ids |-> 0]

Loaded(parsed) ==
    LET pw == Get(parsed, "wheels")
        pa == Get(parsed, "activeWheelId")
        first == IdOf(FirstOf(pw))
    IN  [wheels |-> IF Truthy(pw) THEN WheelsOf(pw) ELSE <<>>,
         activeWheelId |-> IF Truthy(pa) THEN RefOf(pa)
                           ELSE IF Truthy(first) THEN RefOf(first) ELSE Null,
         ids |-> 0]

\* early is TRUE when the handler left by its first `return`
Ran(name, arg, early) == [name |-> name, arg |-> arg, early |-> early]
Rejected == <<"rejected", 0>>

\* readable is FALSE when getItem rejects
LoadResult(st, readable, k) ==
    IF ~readable THEN Starter(k)                                 \* catch, 125-130
    ELSE IF st.kind = "absent" \/ StoredText(st) = <<>> THEN Starter(k)  \* else, 120-124
    ELSE IF ~JSONParse(StoredText(st)).ok THEN Starter(k)        \* catch
    ELSE IF JSONParse(StoredText(st)).val.t \in {"null", "undefined"} THEN Starter(k)  \* TypeError
    ELSE Loaded(JSONParse(StoredText(st)).val)

Load(readable) ==
    /\ loadState = "pending"
    /\ loadState' = "done"
    /\ ops' = ops
    /\ lastOp' = Ran("load", IF readable THEN Null ELSE Rejected, FALSE)
    /\ reading' = Absent
    /\ LET r == LoadResult(reading, readable, nextId) IN
        /\ Commit(r.wheels, r.activeWheelId, selectedSegmentId)
        /\ nextId' = nextId + r.ids
    /\ UNCHANGED <<isSpinning, spinValue, pending>>

\* a handler runs: at most MaxOps of them do, MaxEarlyOps while the load is pending
Handled(name, arg, early) ==
    /\ ops < (IF loadState = "pending" THEN MaxEarlyOps ELSE MaxOps)
    /\ ops' = ops + 1
    /\ lastOp' = Ran(name, arg, early)
    /\ UNCHANGED <<loadState, reading>>

\* ---------------------------------------------------------------- handlers
\* addWheel, lines 170-176 (the "Add Wheel" button of the empty state and "+ Wheel")
\* addWheel numbering the wheel by the count before it is added
AddWheelTo_CountBefore(ws, k) == Append(ws, createWheel(k, WheelName(Len(ws))))

AddWheelTo(ws, k) == Append(ws, createWheel(k, WheelName(Len(ws) + 1)))

AddWheel ==
    /\ Handled("addWheel", Null, FALSE)
    /\ Commit(AddWheelTo(wheels, nextId), Id(nextId), Null)
    /\ nextId' = nextId + 2
    /\ UNCHANGED <<isSpinning, spinValue, pending>>

\* deleteWheel, lines 178-188
DeleteWheelFrom(ws, wheelId) == SelectSeq(ws, LAMBDA w : w.id # wheelId)

\* line 184 taking the last remaining wheel instead of the first
NextWheelId_Last(ws, wheelId) ==
    IF DeleteWheelFrom(ws, wheelId) = <<>> THEN Null
    ELSE DeleteWheelFrom(ws, wheelId)[Len(DeleteWheelFrom(ws, wheelId))].id

NextWheelId(ws, wheelId) ==
    IF DeleteWheelFrom(ws, wheelId) = <<>> THEN Null
    ELSE DeleteWheelFrom(ws, wheelId)[1].id

\* deleteWheel without the guard of lines 179-181
DeleteWheelResult_Unguarded(ws, aid, sel, wheelId) ==
    [wheels |-> DeleteWheelFrom(ws, wheelId),
     activeWheelId |-> IF aid = wheelId THEN NextWheelId(ws, wheelId) ELSE aid,
     selectedSegmentId |-> IF aid = wheelId THEN Null ELSE sel]

DeleteWheelResult(ws, aid, sel, wheelId) ==
    IF Len(ws) = 1
    THEN [wheels |-> ws, activeWheelId |-> aid, selectedSegmentId |-> sel]
    ELSE [wheels |-> DeleteWheelFrom(ws, wheelId),
          activeWheelId |-> IF aid = wheelId THEN NextWheelId(ws, wheelId) ELSE aid,
          selectedSegmentId |-> IF aid = wheelId THEN Null ELSE sel]

deleteWheel(wheelId) ==
    /\ Handled("deleteWheel", wheelId, Len(wheels) = 1)
    /\ HasActiveWheel
    /\ LET r == DeleteWheelResult(wheels, activeWheelId, selectedSegmentId, wheelId) IN
        Commit(r.wheels, r.activeWheelId, r.selectedSegmentId)
    /\ UNCHANGED <<isSpinning, spinValue, pending, nextId>>

\* the wheel chip's onPress, lines 276-279
SetActiveWheel(wheelId) ==
    /\ Handled("setActiveWheel", wheelId, FALSE)
    /\ HasActiveWheel
    /\ Commit(wheels, wheelId, Null)
    /\ UNCHANGED <<isSpinning, spinValue, pending, nextId>>

\* addSegment, lines 190-195
\* addSegment putting the new segment first
AddSegmentTo_InFront(w, k) ==
    [w EXCEPT !.segments = <<createSegment(k, SegmentLabel(Len(@) + 1))>> \o @]

AddSegmentTo(w, k) ==
    [w EXCEPT !.segments = Append(@, createSegment(k, SegmentLabel(Len(@) + 1)))]

addSegment ==
    /\ Handled("addSegment", Null, FALSE)
    /\ HasActiveWheel
    /\ Commit(updateWheel(wheels, activeWheel.id, [j \in 1..Len(wheels) |-> AddSegmentTo(wheels[j], nextId)]),
              activeWheelId, selectedSegmentId)
    /\ nextId' = nextId + 1
    /\ UNCHANGED <<isSpinning, spinValue, pending>>

\* updateSegmentLabel, lines 197-204
\* updateSegmentLabel without the id test of line 201
RelabelIn_Every(w, segmentId, label) ==
    [w EXCEPT !.segments = [j \in 1..Len(@) |-> [@[j] EXCEPT !.label = label]]]

RelabelIn(w, segmentId, label) ==
    [w EXCEPT !.segments =
        [j \in 1..Len(@) |-> IF @[j].id = segmentId THEN [@[j] EXCEPT !.label = label] ELSE @[j]]]

updateSegmentLabel(segmentId, label) ==
    /\ Handled("updateSegmentLabel", segmentId, FALSE)
    /\ HasActiveWheel
    /\ Commit(updateWheel(wheels, activeWheel.id, [j \in 1..Len(wheels) |-> RelabelIn(wheels[j], segmentId, label)]),
              activeWheelId, selectedSegmentId)
    /\ UNCHANGED <<isSpinning, spinValue, pending, nextId>>

\* deleteSegment, lines 206-216
DeleteSegmentIn(w, segmentId, k) ==
    [w EXCEPT !.segments = ensureSegments(SelectSeq(@, LAMBDA seg : seg.id # segmentId), k)]

\* whether ensureSegments creates a segment
Empties(w, segmentId) == \A j \in 1..Len(w.segments) : w.segments[j].id = segmentId

\* deleteSegment without lines 213-215
ClearedSelection_Kept(sel, segmentId) == sel

ClearedSelection(sel, segmentId) == IF sel = segmentId THEN Null ELSE sel

deleteSegment(segmentId) ==
    /\ Handled("deleteSegment", segmentId, FALSE)
    /\ HasActiveWheel
    /\ Commit(updateWheel(wheels, activeWheel.id, [j \in 1..Len(wheels) |-> DeleteSegmentIn(wheels[j], segmentId, nextId)]),
              activeWheelId, ClearedSelection(selectedSegmentId, segmentId))
    /\ nextId' = IF Empties(activeWheel, segmentId) THEN nextId + 1 ELSE nextId
    /\ UNCHANGED <<isSpinning, spinValue, pending>>

\* renameWheel, lines 218-221
renameWheel(name) ==
    /\ Handled("renameWheel", Null, FALSE)
    /\ HasActiveWheel
    /\ Commit(updateWheel(wheels, activeWheel.id, [j \in 1..Len(wheels) |-> [wheels[j] EXCEPT !.name = name]]),
              activeWheelId, selectedSegmentId)
    /\ UNCHANGED <<isSpinning, spinValue, pending, nextId>>

\* ---------------------------------------------------------------- spin
\* spinWheel, lines 223-246, with the two Math.random() draws k1 and k2
\* the guard of line 224 without its isSpinning operand
SpinRejected_WhileIdleOnly == ~HasActiveWheel

SpinRejected == ~HasActiveWheel \/ isSpinning

Animation(segments, k1, k2) ==
    [winner |-> segments[WinningIndex(Len(segments), k1) + 1].id,
     toValue |-> TargetRotation(Len(segments), WinningIndex(Len(segments), k1), k2)]

\* spinWheel without line 234
spinWheel_KeepsSelection(k1, k2) ==
    /\ HasActiveWheel
    /\ IF SpinRejected
       THEN /\ Handled("spinWheel", Null, TRUE)
            /\ UNCHANGED <<wheels, activeWheelId, selectedSegmentId, isSpinning, spinValue,
                           pending, storage, effectDep, nextId>>
       ELSE /\ isSpinning' = TRUE
            /\ selectedSegmentId' = selectedSegmentId
            /\ spinValue' = 0
            /\ pending' = Append(pending, Animation(activeWheel.segments, k1, k2))
            /\ Handled("spinWheel", Null, FALSE)
            /\ UNCHANGED <<wheels, activeWheelId, storage, effectDep, nextId>>

spinWheel(k1, k2) ==
    /\ HasActiveWheel
    /\ IF SpinRejected
       THEN /\ Handled("spinWheel", Null, TRUE)
            /\ UNCHANGED <<wheels, activeWheelId, selectedSegmentId, isSpinning, spinValue,
                           pending, storage, effectDep, nextId>>
       ELSE /\ isSpinning' = TRUE
            /\ selectedSegmentId' = Null
            /\ spinValue' = 0
            /\ pending' = Append(pending, Animation(activeWheel.segments, k1, k2))
            /\ Handled("spinWheel", Null, FALSE)
            /\ UNCHANGED <<wheels, activeWheelId, storage, effectDep, nextId>>

\* the completion callback of Animated.timing(...).start, lines 242-245
\* a completion callback that reads the winner from the wheel shown when it fires
SpinComplete_RecordsFirstShown ==
    /\ pending # <<>>
    /\ isSpinning' = FALSE
    /\ selectedSegmentId' = IF HasActiveWheel THEN activeWheel.segments[1].id ELSE Null
    /\ spinValue' = Head(pending).toValue
    /\ pending' = Tail(pending)
    /\ lastOp' = Ran("spinComplete", Head(pending).winner, FALSE)
    /\ UNCHANGED <<wheels, activeWheelId, loadState, ops, storage, reading, effectDep, nextId>>

\* a completion callback that leaves out line 243
SpinComplete_StaysSpinning ==
    /\ pending # <<>>
    /\ isSpinning' = isSpinning
    /\ selectedSegmentId' = Head(pending).winner
    /\ spinValue' = Head(pending).toValue
    /\ pending' = Tail(pending)
    /\ lastOp' = Ran("spinComplete", Head(pending).winner, FALSE)
    /\ UNCHANGED <<wheels, activeWheelId, loadState, ops, storage, reading, effectDep, nextId>>

SpinComplete ==
    /\ pending # <<>>
    /\ isSpinning' = FALSE
    /\ selectedSegmentId' = Head(pending).winner
    /\ spinValue' = Head(pending).toValue
    /\ pending' = Tail(pending)
    /\ lastOp' = Ran("spinComplete", Head(pending).winner, FALSE)
    /\ UNCHANGED <<wheels, activeWheelId, loadState, ops, storage, reading, effectDep, nextId>>

\* ---------------------------------------------------------------- specification
\* the draws the collection's specification spins with
IndexDraws == {0, RandDen \div 2, RandDen - 1}
OffsetDraws == {RandDen - 1}

WheelIds(ws) == {ws[j].id : j \in 1..Len(ws)}
SegmentIds(w) == {w.segments[j].id : j \in 1..Len(w.segments)}
\* the ids the segment rows of the screen hand to their handlers
ShownSegmentIds == IF HasActiveWheel THEN SegmentIds(activeWheel) ELSE {}

Init ==
    /\ wheels = <<>>
    /\ activeWheelId = Null
    /\ selectedSegmentId = Null
    /\ isSpinning = FALSE
    /\ spinValue = 0
    /\ pending = <<>>
    /\ loadState = "pending"
    /\ ops = 0
    /\ lastOp = Ran("mount", Null, FALSE)
    /\ storage \in StoredSnapshots
    /\ reading = storage
    /\ effectDep = Undefined
    /\ nextId = 6

Next ==
    \/ \E readable \in BOOLEAN : Load(readable)
    \/ AddWheel
    \/ \E wheelId \in WheelIds(wheels) \cup {GhostId} : deleteWheel(wheelId)
    \/ \E wheelId \in WheelIds(wheels) : SetActiveWheel(wheelId)
    \/ addSegment
    \/ \E segmentId \in ShownSegmentIds \cup {GhostId}, label \in TypedLabels :
            updateSegmentLabel(segmentId, label)
    \/ \E segmentId \in ShownSegmentIds \cup {GhostId} : deleteSegment(segmentId)
    \/ \E name \in TypedNames : renameWheel(name)
    \/ \E k1 \in IndexDraws, k2 \in OffsetDraws : spinWheel(k1, k2)
    \/ SpinComplete

Spec == Init /\ [][Next]_vars

\* the animation engine calls the completion callback of every animation it
\* was given (Animated.timing(...).start(callback), lines 235-245)
LiveSpec == Spec /\ WF_vars(SpinComplete)

\* ---------------------------------------------------------------- one spin
\* The spin as a function of the segment count and the two draws: a loaded
\* collection of one wheel with n segments, spun once with every offset draw.
SpinIndexDraws == {(j * RandDen) \div 8 : j \in 0..7}

RECURSIVE SegmentsUpTo(_)
SegmentsUpTo(n) ==
    IF n = 1 THEN <<createSegment(2, DefaultLabel)>>
    ELSE Append(SegmentsUpTo(n - 1), createSegment(n + 1, SegmentLabel(n)))

OneWheel(n) == <<[id |-> Id(1), name |-> WheelName(1), segments |-> SegmentsUpTo(n)]>>

SpinInit ==
    \E n \in 1..MaxSpinSegs :
        /\ wheels = OneWheel(n)
        /\ activeWheelId = Id(1)
        /\ selectedSegmentId = Null
        /\ isSpinning = FALSE
        /\ spinValue = 0
        /\ pending = <<>>
        /\ loadState = "done"
        /\ ops = 0
        /\ lastOp = Ran("load", Null, FALSE)
        /\ storage = Saved(OneWheel(n), Id(1))
        /\ reading = Absent
        /\ effectDep = Id(1)
        /\ nextId = n + 2

SpinNext ==
    \/ \E k1 \in SpinIndexDraws, k2 \in Draws : ops = 0 /\ spinWheel(k1, k2)
    \/ SpinComplete

SpinSpec == SpinInit /\ [][SpinNext]_vars

\* ---------------------------------------------------------------- properties
Loading == loadState = "pending"
\* this step ran the handler or callback `name`
Step(name) == lastOp'.name = name /\ (ops' = ops + 1 \/ name \in {"load", "spinComplete"})

\* C1: once the load has completed the collection holds at least one wheel,
\* and every wheel of it holds at least one segment.
C1_WheelsAndSegmentsNonEmpty ==
    ~Loading =>
        /\ Len(wheels) >= 1
        /\ \A j \in 1..Len(wheels) : Len(wheels[j].segments) >= 1

\* C2: the selected segment is absent or is the id of a segment of the wheel
\* the screen shows as active, also after a spin's completion callback.
C2_SelectedInActiveWheel ==
    selectedSegmentId # Null => selectedSegmentId \in ShownSegmentIds

\* C3: activeWheelId is absent or the id of a wheel of the collection, and it
\* is absent only while the collection is empty.
C3_ActiveWheelIdValid ==
    /\ activeWheelId = Null \/ activeWheelId \in WheelIds(wheels)
    /\ activeWheelId = Null => wheels = <<>>

\* the snapshots the fallback is about: nothing stored, text that does not
\* parse, a value without a wheels list, or one whose list is empty
NoWheelsIn(st) ==
    \/ st.kind = "absent"
    \/ ~JSONParse(StoredText(st)).ok
    \/ Get(JSONParse(StoredText(st)).val, "wheels").t # "arr"
    \/ Get(JSONParse(StoredText(st)).val, "wheels").e = <<>>

IsStarter(ws, aid) ==
    /\ Len(ws) = 1
    /\ ws[1].name = WheelName(1)
    /\ Len(ws[1].segments) = 1
    /\ ws[1].segments[1].label = DefaultLabel
    /\ aid = ws[1].id

\* C7: a load that finds no snapshot, cannot read it, cannot parse it, or finds
\* one without wheels, sets the collection to one wheel "Wheel 1" holding one
\* segment "Default", and makes that wheel active.
C7_FallbackToStarter ==
    [][(Step("load") /\ (lastOp'.arg = Rejected \/ NoWheelsIn(reading)))
            => IsStarter(wheels', activeWheelId')]_vars

\* C5: when a spin has come to rest at its target rotation, the fixed pointer
\* lies over the wedge of the segment the spin recorded as the winner.
C5_PointerOverWinner ==
    (lastOp.name = "spinComplete" /\ HasActiveWheel) =>
        FindIndex(activeWheel.segments, selectedSegmentId) - 1
            \in WedgesUnderPointer(Len(activeWheel.segments), spinValue)

\* C6: the target rotation of every spin is at least extraSpins full turns
\* and less than extraSpins + 1 full turns.
C6_TargetRotationRange ==
    \A j \in 1..Len(pending) :
        /\ Num(extraSpins * 360) <= pending[j].toValue
        /\ pending[j].toValue < Num(extraSpins * 360 + 360)

\* C4: a spin request made while a spin is in flight changes nothing, and at
\* most one completion callback is ever pending.
C4_SpinRequestsRejectedInFlight ==
    [][/\ Len(pending') <= 1
       /\ (isSpinning /\ Step("spinWheel")) =>
            UNCHANGED <<wheels, activeWheelId, selectedSegmentId, isSpinning,
                        spinValue, pending, storage>>]_vars

\* a spin request has just been turned down with a spin in flight
C4_Witness ==
    /\ lastOp = Ran("spinWheel", Null, TRUE)
    /\ isSpinning
    /\ Len(pending) = 1

\* C8: a state with at least one wheel whose activeWheelId names one of its
\* wheels, written as a snapshot and loaded again, comes back with the same
\* wheels (ids, names, segment ids, labels, order) and the same activeWheelId.
C8_RoundTrip ==
    (Len(wheels) >= 1 /\ activeWheelId \in WheelIds(wheels)) =>
        LET r == LoadResult(Persist(wheels, activeWheelId, Absent), TRUE, nextId) IN
            /\ r.wheels = wheels
            /\ r.activeWheelId = activeWheelId
            /\ SyncActiveWheelId(r.wheels, r.activeWheelId, Undefined) = activeWheelId

\* a persisted state of two wheels, the second active, renamed and relabelled
C8_Witness ==
    /\ Len(wheels) >= 2
    /\ activeWheelId = wheels[2].id
    /\ wheels[2].name \in TypedNames
    /\ Len(wheels[2].segments) >= 2
    /\ wheels[2].segments[2].label \in TypedLabels
    /\ storage = Saved(wheels, activeWheelId)

\* C9: deleteWheel called while the collection holds exactly one wheel leaves
\* wheels, activeWheelId and selectedSegmentId as they were, whatever id it is
\* given.
C9_LastWheelKept ==
    [][(Len(wheels) = 1 /\ Step("deleteWheel")) =>
            UNCHANGED <<wheels, activeWheelId, selectedSegmentId>>]_vars

\* the only wheel has just been asked to delete itself, with a winner showing
C9_Witness ==
    /\ lastOp.name = "deleteWheel"
    /\ Len(wheels) = 1
    /\ lastOp.arg = wheels[1].id
    /\ selectedSegmentId # Null

AllSegmentIds(ws) == UNION {SegmentIds(ws[j]) : j \in 1..Len(ws)}

\* C10: deleteSegment given the id of the active wheel's only segment leaves
\* that wheel with exactly one segment, labelled "Default", whose id is new;
\* in every other case it removes exactly the named segment and keeps the
\* order of the rest.
C10_DeleteSegment ==
    [][Step("deleteSegment") =>
        LET segs == activeWheel.segments
            after == wheels'[ActiveWheelIndex(wheels, activeWheelId)].segments
            segmentId == lastOp'.arg
        IN  IF Len(segs) = 1 /\ segs[1].id = segmentId
            THEN /\ Len(after) = 1
                 /\ after[1].label = DefaultLabel
                 /\ after[1].id # segmentId
                 /\ after[1].id \notin AllSegmentIds(wheels)
            ELSE /\ after = SelectSeq(segs, LAMBDA seg : seg.id # segmentId)
                 /\ \A j \in 1..Len(after) : after[j].id # segmentId
                 /\ Len(after) = Len(segs) - (IF segmentId \in SegmentIds(activeWheel) THEN 1 ELSE 0)
      ]_vars

\* the only segment of the active wheel has just been deleted and replaced
C10_Witness ==
    /\ lastOp.name = "deleteSegment"
    /\ lastOp.arg # GhostId
    /\ HasActiveWheel
    /\ lastOp.arg \notin SegmentIds(activeWheel)
    /\ activeWheel.segments = <<createSegment(nextId - 1, DefaultLabel)>>

\* C11: right after the active wheel is switched (to any wheel, the active one
\* included), after deleteSegment of the segment recorded as the winner, and
\* after a spin is started, selectedSegmentId is absent.
C11_SelectionCleared ==
    [][/\ Step("setActiveWheel") => selectedSegmentId' = Null
       /\ (Step("deleteSegment") /\ lastOp'.arg = selectedSegmentId)
            => selectedSegmentId' = Null
       /\ (Step("spinWheel") /\ ~lastOp'.early) => selectedSegmentId' = Null]_vars

\* a spin has completed and the next handler deleted a segment, after which
\* nothing is selected: the segment deleted was the recorded winner
C11_Witness ==
    /\ lastOp.name = "deleteSegment"
    /\ lastOp.arg # GhostId
    /\ ops = 2
    /\ ~isSpinning
    /\ spinValue # 0
    /\ selectedSegmentId = Null

\* C12: when more than one wheel exists and deleteWheel removes the active
\* wheel, the first of the remaining wheels becomes active, the removed wheel
\* is gone, the remaining wheels keep their order, and selectedSegmentId is
\* absent.
C12_DeleteActiveWheel ==
    [][(Len(wheels) > 1 /\ Step("deleteWheel") /\ lastOp'.arg = activeWheel.id) =>
        /\ wheels' = SelectSeq(wheels, LAMBDA w : w.id # lastOp'.arg)
        /\ lastOp'.arg \notin WheelIds(wheels')
        /\ activeWheelId' = wheels'[1].id
        /\ selectedSegmentId' = Null]_vars

\* the wheel added by the first handler (the third of three, active) has been
\* deleted by the second, and the first of the two stored wheels is active
C12_Witness ==
    /\ lastOp = Ran("deleteWheel", Id(6), FALSE)
    /\ ops = 2
    /\ Len(wheels) = 2
    /\ Id(6) \notin WheelIds(wheels)
    /\ activeWheelId = wheels[1].id

\* C13: after any deleteWheel that removes a wheel (more than one existed),
\* selectedSegmentId is absent, whether or not the removed wheel was active.
C13_DeleteWheelClearsSelection ==
    [][(Len(wheels) > 1 /\ Step("deleteWheel") /\ lastOp'.arg \in WheelIds(wheels))
            => selectedSegmentId' = Null]_vars

\* C14: addWheel on a collection of k wheels appends, after the existing
\* wheels and without changing them, one new wheel named "Wheel " k+1 that
\* holds exactly one segment labelled "Default"; the new wheel becomes active
\* and selectedSegmentId becomes absent.
C14_AddWheel ==
    [][Step("addWheel") =>
        /\ Len(wheels') = Len(wheels) + 1
        /\ SubSeq(wheels', 1, Len(wheels)) = wheels
        /\ wheels'[Len(wheels')].name = WheelName(Len(wheels) + 1)
        /\ wheels'[Len(wheels')].id \notin WheelIds(wheels)
        /\ Len(wheels'[Len(wheels')].segments) = 1
        /\ wheels'[Len(wheels')].segments[1].label = DefaultLabel
        /\ activeWheelId' = wheels'[Len(wheels')].id
        /\ selectedSegmentId' = Null]_vars

\* a third wheel has just been added behind the two stored ones
C14_Witness ==
    /\ lastOp.name = "addWheel"
    /\ Len(wheels) = 3
    /\ SubSeq(wheels, 1, 2) = StoredWheels
    /\ wheels[3].name = WheelName(3)
    /\ activeWheelId = wheels[3].id

\* the wheels other than the active one
OtherWheels(ws, aid) == SelectSeq(ws, LAMBDA w : w.id # ws[ActiveWheelIndex(ws, aid)].id)
Labels(w) == [j \in 1..Len(w.segments) |-> w.segments[j].label]

\* C15: addSegment on an active wheel of m segments appends exactly one
\* segment labelled "Segment " m+1 at the end of that wheel's segments and
\* leaves the existing segments, every other wheel, activeWheelId and
\* selectedSegmentId unchanged; from the default collection two calls give
\* the labels Default, Segment 2, Segment 3.
C15_AddSegment ==
    [][Step("addSegment") =>
        LET m == Len(activeWheel.segments)
            after == wheels'[ActiveWheelIndex(wheels, activeWheelId)]
        IN  /\ Len(wheels') = Len(wheels)
            /\ Len(after.segments) = m + 1
            /\ SubSeq(after.segments, 1, m) = activeWheel.segments
            /\ after.segments[m + 1].label = SegmentLabel(m + 1)
            /\ after.segments[m + 1].id \notin AllSegmentIds(wheels)
            /\ after.id = activeWheel.id /\ after.name = activeWheel.name
            /\ OtherWheels(wheels', activeWheelId) = OtherWheels(wheels, activeWheelId)
            /\ UNCHANGED <<activeWheelId, selectedSegmentId>>
            /\ (IsStarter(wheels, activeWheelId) /\ Step("addSegment"))
                    => Labels(after) = <<DefaultLabel, SegmentLabel(2)>>]_vars

\* the default collection after two addSegment calls
C15_Witness ==
    /\ lastOp.name = "addSegment"
    /\ ops = 2
    /\ Len(wheels) = 1
    /\ wheels[1].name = WheelName(1)
    /\ Labels(wheels[1]) = <<DefaultLabel, SegmentLabel(2), SegmentLabel(3)>>

C17_SpinCompletes ==
    isSpinning ~> (~isSpinning /\ pending = <<>> /\ (HasActiveWheel => ~SpinRejected))

\* a spin has completed although its winner is no longer among the segments
\* shown (the wheel was switched or edited in flight), and a spin request
\* would be accepted
C17_Witness ==
    /\ lastOp.name = "spinComplete"
    /\ ~isSpinning
    /\ HasActiveWheel
    /\ lastOp.arg \notin ShownSegmentIds
    /\ ~SpinRejected

\* C18: in every reachable state in which a spin is in flight (isSpinning),
\* selectedSegmentId is absent.
C18_NoSelectionWhileSpinning ==
    isSpinning => selectedSegmentId = Null

\* the segment a spin in flight has chosen has just been deleted
C18_Witness ==
    /\ isSpinning
    /\ pending # <<>>
    /\ lastOp.name = "deleteSegment"
    /\ lastOp.arg = pending[1].winner
    /\ selectedSegmentId = Null

\* C19: the id recorded as selectedSegmentId when a spin completes is the id
\* of the segment chosen at spin start, a segment of the active wheel at that
\* moment; adding, relabelling or removing segments while the spin is in
\* flight does not change it.
C19_WinnerFixedAtStart ==
    [][/\ (Step("spinWheel") /\ ~lastOp'.early) =>
            /\ pending'[Len(pending')].winner \in SegmentIds(activeWheel)
            /\ \E k1 \in IndexDraws :
                pending'[Len(pending')].winner =
                    activeWheel.segments[WinningIndex(Len(activeWheel.segments), k1) + 1].id
       /\ (~Step("spinWheel") /\ ~Step("spinComplete")) => pending' = pending
       /\ Step("spinComplete") => selectedSegmentId' = pending[1].winner]_vars

\* the second of two segments won, the first was deleted while the spin was in
\* flight, and the callback recorded the winner, now at the first position
C19_Witness ==
    /\ lastOp = Ran("spinComplete", StoredWheels[2].segments[2].id, FALSE)
    /\ selectedSegmentId = lastOp.arg
    /\ HasActiveWheel
    /\ activeWheel.segments[1].id = selectedSegmentId
    /\ \E k2 \in OffsetDraws : spinValue = TargetRotation(2, 1, k2)

\* C20: the startup load is applied once, and a wheel created with addWheel
\* before the load has completed is still in the collection after it.
C20_EarlyWheelSurvivesLoad ==
    [][Step("load") =>
        /\ loadState = "pending" /\ loadState' = "done"
        /\ \A j \in 1..Len(wheels) : \E i \in 1..Len(wheels') : wheels'[i] = wheels[j]]_vars

====
